---- MODULE Spec2Model ----
(***************************************************************************)
(* md2conf.py: publish one markdown document to a Confluence page.         *)
(*                                                                         *)
(* The model follows one run of main(): the title lookup, the optional     *)
(* delete, the ancestor lookup, create_page / update_page, the attachment  *)
(* uploads, the local-reference rewriting and the property updates.        *)
(*                                                                         *)
(* Strings are sequences of chunks (short strings): a path "d/a.png" is    *)
(* <<"d", "/", "a.png">>, a heading "Set up" is <<"Set", " ", "up">>.       *)
(* Substring search and str.replace work on whole chunks.                  *)
(*                                                                         *)
(* The rendered body (html) is a record of the three kinds of tags the     *)
(* program scans for: <img .../> tags, <hN> headings and <a href> links.   *)
(* webbrowser.open, logging and the labels of the PUT payload have no      *)
(* effect on the modelled state.                                           *)
(***************************************************************************)
EXTENDS Integers, Sequences, FiniteSets, TLC

VARIABLES
    cfg,          \* the module-level globals set from ARGS (lines 83-100)
    html,         \* the converted document body main() hands on (line 605)
    files,        \* the local file system: the set of existing files
    server,       \* the remote side: the page, the ancestor, the attachments
    pc,           \* position of the run
    exitStatus,   \* -1 while running, then the process exit status
    calls,        \* the remote calls issued so far, in order, with responses
    page,         \* main(): result of get_page(title)
    ancestors,    \* main(): the ancestors list
    upd,          \* update_page(): its arguments and loop positions
    up,           \* upload_attachment(): its arguments and locals
    handles       \* file objects opened by open() and not yet closed

vars == <<cfg, html, files, server, pc, exitStatus, calls, page, ancestors,
          upd, up, handles>>

----------------------------------------------------------------------------
(* Bounds of the model *)

\* most <img/> tags in a body
MaxImgs == 1
\* highest version number the remote side starts with
MaxVer == 2
\* most headings in a body
MaxHeaders == 2
\* most links in a body
MaxLinks == 1

----------------------------------------------------------------------------
(* Strings *)

RECURSIVE ReplaceAll(_, _, _)
\* str.replace(old, new): every non-overlapping occurrence, left to right
ReplaceAll(s, old, new) ==
    IF Len(s) < Len(old) \/ Len(old) = 0 THEN s
    ELSE IF SubSeq(s, 1, Len(old)) = old
         THEN new \o ReplaceAll(SubSeq(s, Len(old) + 1, Len(s)), old, new)
         ELSE <<Head(s)>> \o ReplaceAll(Tail(s), old, new)

\* chunks that hold the text "http"
HttpChunks == {"http://", "https://"}

\* re.search('http.*', s): "http" occurs somewhere in s
SearchHttp(s) == \E i \in 1..Len(s) : s[i] \in HttpChunks

\* ''.join(s.split()): s without its whitespace
JoinSplit(s) == SelectSeq(s, LAMBDA c : c # " ")

\* '+'.join(s.split()): whitespace runs of s become "+"
PlusJoinSplit(s) == [i \in 1..Len(s) |-> IF s[i] = " " THEN "+" ELSE s[i]]

\* os.path.basename(p): what follows the last "/"
RECURSIVE basename(_)
basename(p) ==
    IF \A i \in 1..Len(p) : p[i] # "/" THEN p
    ELSE basename(Tail(p))

\* os.path.join(folder, p): p itself when p is absolute
PathJoin(folder, p) ==
    IF Len(p) > 0 /\ p[1] = "/" THEN p ELSE folder \o <<"/">> \o p

\* os.path.dirname(os.path.abspath(MARKDOWN_FILE))
source_folder == <<"/", "docs">>

\* the page title: first line of the markdown file (line 585)
title == <<"My", " ", "Page">>

----------------------------------------------------------------------------
(* The rendered body *)

\* an <img .../> tag: its src, and whether it carries an alt attribute
Img(src, alt) == [src |-> src, alt |-> alt]

\* an <a href="...">text</a> tag; title is <<>> when it has no title attribute
Link(href, text, ttl) == [href |-> href, text |-> text, title |-> ttl]

Body(imgs, headers, links) == [imgs |-> imgs, headers |-> headers, links |-> links]

EmptyBody == Body(<<>>, <<>>, <<>>)

\* html.replace(old, new) on every string of the body
BodyReplace(b, old, new) ==
    [imgs    |-> [i \in 1..Len(b.imgs) |->
                    [b.imgs[i] EXCEPT !.src = ReplaceAll(@, old, new)]],
     headers |-> [i \in 1..Len(b.headers) |-> ReplaceAll(b.headers[i], old, new)],
     links   |-> [i \in 1..Len(b.links) |->
                    [b.links[i] EXCEPT !.href = ReplaceAll(@, old, new),
                                       !.text = ReplaceAll(@, old, new)]]]

\* a tag matched by r'<a href="#.+?">.+?</a>' (lines 290, 374)
IsLocalRef(l) ==
    /\ Len(l.href) >= 2
    /\ l.href[1] = "#"
    /\ l.title = <<>>
    /\ Len(l.text) >= 1

\* re.findall(r'<a href="#.+?">.+?</a>', html)
LocalRefs(b) == SelectSeq(b.links, IsLocalRef)

----------------------------------------------------------------------------
(* Configuration (lines 83-127) *)

SPACE_KEY == "DOC"

\* ORGNAME.find('.') != -1
HasDot(org) == \E i \in 1..Len(org) : org[i] = "."

\* lines 117-127. With NOSSL, line 127 computes 'replaced' and drops it:
\* str.replace returns a new string and the result is not assigned.
ApiUrl(orgname, nossl) ==
    LET url == IF HasDot(orgname)
               THEN <<"https://">> \o orgname
               ELSE <<"https://">> \o orgname \o <<".atlassian.net", "/wiki">>
        replaced == ReplaceAll(url, <<"https://">>, <<"http://">>)
    IN  url

CONFLUENCE_API_URL == ApiUrl(cfg.ORGNAME, cfg.NOSSL)

\* CONFLUENCE_API_URL.endswith('/wiki')
EndsWithWiki(url) == Len(url) > 0 /\ url[Len(url)] = "/wiki"

----------------------------------------------------------------------------
(* add_local_refs (lines 236-309) *)

ref_prefixes == [bitbucket |-> <<"#", "markdown-header-">>]

ref_postfixes == [bitbucket |-> "_"]

\* str.lower() on a chunk
Lower(c) ==
    CASE c = "Setup" -> "setup"
      [] c = "Set"   -> "set"
      [] c = "Up"    -> "up"
      [] OTHER       -> c

\* slug(string, lowercase): lower-cased on request, whitespace turned to "-"
slug(string, lowercase) ==
    [i \in 1..Len(string) |->
        IF string[i] = " " THEN "-"
        ELSE IF lowercase THEN Lower(string[i]) ELSE string[i]]

\* dict assignment m[k] = v
DictSet(m, k, v) == [x \in DOMAIN m \cup {k} |-> IF x = k THEN v ELSE m[x]]

RECURSIVE HeadersMap_Overwrite(_, _, _, _, _)
\* the loop without lines 278-285: a repeated key is assigned again
HeadersMap_Overwrite(headers, map, count, ref_prefix, ref_postfix) ==
    IF headers = <<>> THEN map
    ELSE LET header == Head(headers)
             key    == ref_prefix \o slug(header, TRUE)
             value  == IF cfg.VERSION = 1 THEN JoinSplit(header)
                       ELSE slug(header, FALSE)
         IN  HeadersMap_Overwrite(Tail(headers), DictSet(map, key, value),
                                  DictSet(count, key, 1), ref_prefix, ref_postfix)

RECURSIVE HeadersMap(_, _, _, _, _)
\* lines 270-288: the loop over headers; map is headers_map, count is headers_count
HeadersMap(headers, map, count, ref_prefix, ref_postfix) ==
    IF headers = <<>> THEN map
    ELSE LET header == Head(headers)
             key    == ref_prefix \o slug(header, TRUE)
             value  == IF cfg.VERSION = 1 THEN JoinSplit(header)
                                          ELSE slug(header, FALSE)
         IN  IF key \in DOMAIN map
             THEN LET alt_count == count[key]
                      alt_key   == key \o <<ref_postfix, ToString(alt_count)>>
                      alt_value == value \o <<".", ToString(alt_count)>>
                  IN  HeadersMap(Tail(headers),
                                 DictSet(map, alt_key, alt_value),
                                 DictSet(count, key, alt_count + 1),
                                 ref_prefix, ref_postfix)
             ELSE HeadersMap(Tail(headers),
                             DictSet(map, key, value),
                             DictSet(count, key, 1),
                             ref_prefix, ref_postfix)

\* lines 300-306: the tag that replaces a resolved link
Replacement(link, result_ref, page_id, ttl) ==
    LET base_uri == CONFLUENCE_API_URL \o <<"/spaces/", SPACE_KEY, "/pages/", page_id, "/">>
                    \o PlusJoinSplit(ttl)
        replacement_uri ==
            IF cfg.VERSION = 1
            THEN base_uri \o <<"#">> \o JoinSplit(ttl) \o <<"-">> \o result_ref
            ELSE base_uri \o <<"#">> \o result_ref
    IN  Link(replacement_uri, link.text, link.text)

\* html.replace(link, replacement): every tag equal to link
ReplaceLink(b, link, replacement) ==
    [b EXCEPT !.links = [i \in 1..Len(b.links) |->
                            IF b.links[i] = link THEN replacement ELSE b.links[i]]]

RECURSIVE RewriteLinks(_, _, _, _, _)
\* lines 292-307: the loop over links; headers_map[ref] raises KeyError
RewriteLinks(links, headers_map, b, page_id, ttl) ==
    IF links = <<>> THEN [raised |-> FALSE, html |-> b]
    ELSE LET link == Head(links)
             ref  == link.href
         IN  IF ref \notin DOMAIN headers_map
             THEN [raised |-> TRUE, html |-> b]
             ELSE LET result_ref == headers_map[ref]
                  IN  IF result_ref # <<>>
                      THEN RewriteLinks(Tail(links), headers_map,
                               ReplaceLink(b, link,
                                   Replacement(link, result_ref, page_id, ttl)),
                               page_id, ttl)
                      ELSE RewriteLinks(Tail(links), headers_map, b, page_id, ttl)

\* add_local_refs(page_id, title, html): the returned html, or raised
add_local_refs(page_id, ttl, b) ==
    IF cfg.MARKDOWN_SOURCE \notin DOMAIN ref_prefixes
       \/ cfg.MARKDOWN_SOURCE \notin DOMAIN ref_postfixes
    THEN [raised |-> FALSE, html |-> b]
    ELSE IF b.headers = <<>>
    THEN [raised |-> FALSE, html |-> b]
    ELSE IF cfg.VERSION \notin {1, 2}
    THEN [raised |-> TRUE, html |-> b]
    ELSE RewriteLinks(LocalRefs(b),
                      HeadersMap(b.headers, <<>>, <<>>,
                                 ref_prefixes[cfg.MARKDOWN_SOURCE],
                                 ref_postfixes[cfg.MARKDOWN_SOURCE]),
                      b, page_id, ttl)

----------------------------------------------------------------------------
(* Remote calls and responses *)

\* response.raise_for_status() raises: a 4xx or 5xx status
Raises(st) == st >= 400 /\ st < 600

\* responses drawn for the GET calls, which only test raise_for_status
GetStatuses == {200, 500}

\* responses drawn for the calls whose status the program tests against 200
\* or 204 (create, update, delete)
WriteStatuses == {200, 204, 304, 500}

\* responses drawn for the attachment POST and the property PUT, where the
\* program makes no difference between the statuses that do not raise
UploadStatuses == {200, 304, 500}

\* one remote call: the request as sent, the status of its response and the
\* data the program reads from the response
Call(op, target, name, version, body, st, data) ==
    [op |-> op, url |-> CONFLUENCE_API_URL, page |-> target, name |-> name,
     version |-> version, body |-> body, status |-> st, data |-> data]

\* get_page returning False (line 190)
NoPage == [found |-> FALSE, id |-> "", version |-> 0, properties |-> {}]

\* PageInfo(id, version, link, properties) (lines 186-188); properties is the
\* set of [key, version] the lookup returned
PageInfo(id, version, properties) ==
    [found |-> TRUE, id |-> id, version |-> version, properties |-> properties]

\* key in page.properties (line 635)
HasProperty(properties, key) == \E p \in properties : p.key = key

\* page.properties[key][u'version'][u'number'] (line 636)
PropertyVersion(properties, key) == (CHOOSE p \in properties : p.key = key).version

NoUpdate ==
    [page_id |-> "", version |-> 0, properties |-> <<>>, body |-> EmptyBody,
     tags |-> <<>>, i |-> 0, j |-> 0, k |-> 0]

NoUpload == [file |-> <<>>, filename |-> <<>>, from |-> "", attachment |-> <<>>]

\* update_page(page_id, title, body, version, ancestors, properties, attachments)
\* entered: the frame before add_images starts (line 424, line 204)
UpdateFrame(page_id, body, version, properties) ==
    [page_id |-> page_id, version |-> version, properties |-> properties,
     body |-> body, tags |-> body.imgs, i |-> 1, j |-> 1, k |-> 1]

----------------------------------------------------------------------------
(* Inputs of a run: the options, the document, the disk, the remote side *)

SeqsUpTo(S, n) == UNION {[1..k -> S] : k \in 0..n}

\* src values of image tags: a file beside the document, a file in a
\* sub-folder with the same name, a remote URL
RelPaths == {<<"a.png">>, <<"d", "/", "a.png">>, <<"http://", "host", "/", "a.png">>}

\* image tags; the last one has no alt attribute
Imgs == {Img(p, TRUE) : p \in RelPaths} \cup {Img(<<"a.png">>, FALSE)}

\* heading texts: two that differ only in case, so that they share an anchor
\* key, and one with white space
HeaderTexts == {<<"Setup">>, <<"setup">>, <<"Set", " ", "Up">>}

Hrefs == {<<"#", "markdown-header-", "setup">>,
          <<"#", "markdown-header-", "setup", "_", "1">>,
          <<"#", "elsewhere">>}

Links == {Link(h, <<"see">>, <<>>) : h \in Hrefs}

\* names an attachment can have on the remote page
Filenames == {<<"a.png">>, <<"c.pdf">>}

\* what the disk can hold: nothing, the image, the image in both folders
FileSystems ==
    {{},
     {<<"/", "docs", "/", "a.png">>},
     {<<"/", "docs", "/", "a.png">>, <<"/", "docs", "/", "d", "/", "a.png">>}}

OrgNames == {<<"acme">>, <<"wiki", ".", "acme", ".", "org">>}

\* remote property sets over the keys: each key absent, or at some version
PropSets(keys) ==
    UNION {{{[key |-> k, version |-> f[k]] : k \in D} : f \in [D -> 1..MaxVer]}
           : D \in SUBSET keys}

\* what the title lookup can find remotely
Pages(keys) ==
    {NoPage} \cup {PageInfo("100", v, P) : v \in 1..MaxVer, P \in PropSets(keys)}

ParentPage == PageInfo("900", 1, {})

NoAtts == [f \in Filenames |-> 0]

Server(pg, parent, atts) == [page |-> pg, ancestor |-> parent, atts |-> atts]

DefaultCfg ==
    [DELETE |-> FALSE, SIMULATE |-> FALSE, ANCESTOR |-> FALSE, NOSSL |-> FALSE,
     ORGNAME |-> <<"acme">>, PROPERTIES |-> <<>>, ATTACHMENTS |-> <<>>,
     LABELS |-> <<>>, MARKDOWN_SOURCE |-> "", VERSION |-> 1]

Input(c, h, fs, srv) == [cfg |-> c, html |-> h, files |-> fs, server |-> srv]

AllFiles == {<<"/", "docs", "/", "a.png">>, <<"/", "docs", "/", "d", "/", "a.png">>}

OneImage == Body(<<Img(<<"a.png">>, TRUE)>>, <<>>, <<>>)

\* runs that vary the mode options and the base URL
ModeInputs ==
    {Input([DefaultCfg EXCEPT !.DELETE = d, !.SIMULATE = s, !.ANCESTOR = a[1],
                              !.NOSSL = n, !.ORGNAME = o],
           h, AllFiles, Server(pg, a[2], NoAtts)) :
        d \in BOOLEAN, s \in BOOLEAN, n \in BOOLEAN, o \in OrgNames,
        a \in {<<FALSE, NoPage>>, <<TRUE, NoPage>>, <<TRUE, ParentPage>>},
        h \in {EmptyBody, OneImage}, pg \in Pages({})}

\* runs that vary the images, the attachments, the labels and the disk
AttachmentInputs ==
    {Input([DefaultCfg EXCEPT !.DELETE = d, !.ATTACHMENTS = t, !.LABELS = l],
           Body(im, <<>>, <<>>), fs, Server(pg, NoPage, at)) :
        d \in BOOLEAN,
        t \in {<<>>, <<<<"a.png">>>>, <<<<"c.pdf">>>>},
        l \in {<<>>, <<"doc">>},
        im \in SeqsUpTo(Imgs, MaxImgs),
        fs \in FileSystems,
        pg \in {NoPage, PageInfo("100", 1, {})},
        at \in {NoAtts, [NoAtts EXCEPT ![<<"a.png">>] = 1]}}

\* runs that vary the content properties and their remote versions
PropertyInputs ==
    UNION {{Input([DefaultCfg EXCEPT !.PROPERTIES = ps], h, AllFiles,
                  Server(pg, NoPage, NoAtts)) :
               h \in {EmptyBody, OneImage},
               pg \in Pages({ps[i] : i \in 1..Len(ps)})}
           : ps \in {<<>>, <<"p1">>, <<"p1", "p2">>, <<"p2", "p1">>}}

\* runs that vary the headings, the links, the dialect and the page format
LocalRefInputs ==
    {Input([DefaultCfg EXCEPT !.MARKDOWN_SOURCE = m, !.VERSION = v],
           Body(<<>>, hs, ls), AllFiles, Server(pg, NoPage, NoAtts)) :
        m \in {"bitbucket", "github"}, v \in {1, 2, 3},
        hs \in SeqsUpTo(HeaderTexts, MaxHeaders),
        ls \in SeqsUpTo(Links, MaxLinks),
        pg \in {NoPage, PageInfo("100", 1, {})}}

\* runs with an image, a heading, links and properties together
MixedInputs ==
    {Input([DefaultCfg EXCEPT !.MARKDOWN_SOURCE = "bitbucket", !.VERSION = v,
                              !.PROPERTIES = <<"p1">>],
           Body(OneImage.imgs, <<<<"Setup">>>>, ls), AllFiles,
           Server(pg, NoPage, NoAtts)) :
        v \in {1, 2},
        ls \in SeqsUpTo(Links, MaxLinks),
        pg \in {NoPage, PageInfo("100", 1, {})}}

\* a remote page that does not exist has no attachments
Inputs ==
    {in \in ModeInputs \cup AttachmentInputs \cup PropertyInputs
             \cup LocalRefInputs \cup MixedInputs :
        ~in.server.page.found => in.server.atts = NoAtts}

Init ==
    /\ \E in \in Inputs :
        /\ cfg = in.cfg
        /\ html = in.html
        /\ files = in.files
        /\ server = in.server
    /\ pc = "main"
    /\ exitStatus = -1
    /\ calls = <<>>
    /\ page = NoPage
    /\ ancestors = <<>>
    /\ upd = NoUpdate
    /\ up = NoUpload
    /\ handles = 0

----------------------------------------------------------------------------
(* main (lines 571-644) *)

\* sys.exit(status), or an exception nobody catches (status 1)
Exit(status) == pc' = "exit" /\ exitStatus' = status

\* what the remote side answers to a lookup by title (lines 142-143)
Lookup(t) == IF t = title THEN server.page ELSE server.ancestor

AncestorTitle == <<"Parent">>

\* lines 609-614: the simulate stop, then get_page(title) (lines 134-190)
Main ==
    /\ pc = "main"
    /\ IF cfg.SIMULATE
       THEN /\ Exit(0)
            /\ UNCHANGED <<calls, page>>
       ELSE \E st \in GetStatuses :
            /\ calls' = Append(calls, Call("get_page", "", title, 0, EmptyBody, st,
                                       Lookup(title)))
            /\ IF Raises(st)
               THEN Exit(1) /\ UNCHANGED page
               ELSE /\ page' = Lookup(title)
                    /\ pc' = "main_delete"
                    /\ UNCHANGED exitStatus
    /\ UNCHANGED <<cfg, html, files, server, ancestors, upd, up, handles>>

\* line 616: if DELETE and page
DeleteRequested == cfg.DELETE /\ page.found

\* lines 616-618 with delete_page (lines 386-406)
MainDelete ==
    /\ pc = "main_delete"
    /\ DeleteRequested
    /\ \E st \in WriteStatuses :
        /\ calls' = Append(calls, Call("delete", page.id, <<>>, 0, EmptyBody, st,
                                       NoPage))
        /\ server' = IF st = 204 THEN [server EXCEPT !.page = NoPage] ELSE server
    /\ Exit(1)
    /\ UNCHANGED <<cfg, html, files, page, ancestors, upd, up, handles>>

\* lines 620-628: the ancestor lookup
MainAncestor ==
    /\ pc = "main_delete"
    /\ ~DeleteRequested
    /\ IF cfg.ANCESTOR
       THEN \E st \in GetStatuses :
            /\ calls' = Append(calls,
                               Call("get_page", "", AncestorTitle, 0, EmptyBody, st,
                                    Lookup(AncestorTitle)))
            /\ IF Raises(st) \/ ~Lookup(AncestorTitle).found
               THEN Exit(1) /\ UNCHANGED ancestors
               ELSE /\ ancestors' = <<Lookup(AncestorTitle).id>>
                    /\ pc' = "main_page"
                    /\ UNCHANGED exitStatus
       ELSE /\ ancestors' = <<>>
            /\ pc' = "main_page"
            /\ UNCHANGED <<calls, exitStatus>>
    /\ UNCHANGED <<cfg, html, files, server, page, upd, up, handles>>

\* every property submitted as if it were new
NextPropertyVersion_AlwaysOne(properties, key) == 1

\* lines 635-638: the version a property is submitted with
NextPropertyVersion(properties, key) ==
    IF HasProperty(properties, key)
    THEN PropertyVersion(properties, key) + 1
    ELSE 1

\* lines 632-638: the properties dictionary, in the order of PROPERTIES
UpdatedProperties(properties) ==
    [i \in 1..Len(cfg.PROPERTIES) |->
        [key |-> cfg.PROPERTIES[i],
         version |-> NextPropertyVersion(properties, cfg.PROPERTIES[i])]]

\* lines 630-640: the page exists, update_page is entered
MainUpdate ==
    /\ pc = "main_page"
    /\ page.found
    /\ upd' = UpdateFrame(page.id, html, page.version, UpdatedProperties(page.properties))
    /\ pc' = "add_images"
    /\ UNCHANGED <<cfg, html, files, server, exitStatus, calls, page, ancestors,
                   up, handles>>

\* line 644, and the return from main
MainEnd ==
    /\ pc = "main_end"
    /\ Exit(0)
    /\ UNCHANGED <<cfg, html, files, server, calls, page, ancestors, upd, up, handles>>

----------------------------------------------------------------------------
(* create_page (lines 312-383) *)

\* lines 368-371: the initial properties dictionary
InitialProperties ==
    [i \in 1..Len(cfg.PROPERTIES) |-> [key |-> cfg.PROPERTIES[i], version |-> 1]]

\* the check of create_page without the labels
NeedsUpdate_NoLabels(body) ==
    \/ body.imgs # <<>>
    \/ LocalRefs(body) # <<>>
    \/ cfg.PROPERTIES # <<>>
    \/ cfg.ATTACHMENTS # <<>>

\* lines 373-375: whether create_page goes on to update_page
NeedsUpdate(body) ==
    \/ body.imgs # <<>>
    \/ LocalRefs(body) # <<>>
    \/ InitialProperties # <<>>
    \/ cfg.ATTACHMENTS # <<>>
    \/ cfg.LABELS # <<>>

CreatedId == "200"

\* lines 641-642 and create_page: the POST and what follows its response
CreatePage ==
    /\ pc = "main_page"
    /\ ~page.found
    /\ \E st \in WriteStatuses, version \in 1..MaxVer :
        /\ calls' = Append(calls, Call("create", "", title, 0, html, st,
                                       PageInfo(CreatedId, version, {})))
        /\ IF Raises(st) \/ st # 200
           THEN /\ Exit(1)
                /\ UNCHANGED <<server, upd>>
           ELSE /\ server' = [server EXCEPT !.page = PageInfo(CreatedId, version, {})]
                /\ UNCHANGED exitStatus
                /\ IF NeedsUpdate(html)
                   THEN /\ upd' = UpdateFrame(CreatedId, html, version, InitialProperties)
                        /\ pc' = "add_images"
                   ELSE /\ pc' = "main_end"
                        /\ UNCHANGED upd
    /\ UNCHANGED <<cfg, html, files, page, ancestors, up, handles>>

----------------------------------------------------------------------------
(* update_page (lines 409-490): add_images, add_attachments *)

\* lines 210-216: the body after the src of one tag has been rewritten
RewriteSrc(body, rel_path, page_id) ==
    IF SearchHttp(rel_path) THEN body
    ELSE IF EndsWithWiki(CONFLUENCE_API_URL)
    THEN BodyReplace(body, rel_path,
                     <<"/wiki", "/download/attachments/", page_id, "/">>
                     \o basename(rel_path))
    ELSE BodyReplace(body, rel_path,
                     <<"/download/attachments/", page_id, "/">> \o basename(rel_path))

\* upload_attachment has returned: back in the loop that called it
\* (lines 210-216 of add_images, line 232 of add_attachments)
AfterUpload ==
    IF up.from = "add_images"
    THEN /\ upd' = [upd EXCEPT
                      !.body = RewriteSrc(@, upd.tags[upd.i].src, upd.page_id),
                      !.i = @ + 1]
         /\ pc' = "add_images"
    ELSE /\ upd' = [upd EXCEPT !.j = @ + 1]
         /\ pc' = "add_attachments"

\* lines 204-209: the next tag; a tag without alt makes re.search(...).group fail
AddImages ==
    /\ pc = "add_images"
    /\ IF upd.i > Len(upd.tags)
       THEN /\ pc' = "add_attachments"
            /\ UNCHANGED <<up, exitStatus>>
       ELSE IF ~upd.tags[upd.i].alt
       THEN /\ Exit(1)
            /\ UNCHANGED up
       ELSE /\ up' = [NoUpload EXCEPT
                        !.file = PathJoin(source_folder, upd.tags[upd.i].src),
                        !.from = "add_images"]
            /\ pc' = "upload_attachment"
            /\ UNCHANGED exitStatus
    /\ UNCHANGED <<cfg, html, files, server, calls, page, ancestors, upd, handles>>

\* lines 231-233: the next configured attachment
AddAttachments ==
    /\ pc = "add_attachments"
    /\ IF upd.j > Len(cfg.ATTACHMENTS)
       THEN /\ pc' = "add_local_refs"
            /\ UNCHANGED up
       ELSE /\ up' = [NoUpload EXCEPT
                        !.file = PathJoin(source_folder, cfg.ATTACHMENTS[upd.j]),
                        !.from = "add_attachments"]
            /\ pc' = "upload_attachment"
    /\ UNCHANGED <<cfg, html, files, server, exitStatus, calls, page, ancestors,
                   upd, handles>>

----------------------------------------------------------------------------
(* upload_attachment (lines 519-558), get_attachment (lines 493-516) *)

\* line 528: the reference is taken for a remote URL
IsRemote(file) == SearchHttp(file)

\* upload_attachment without the check of line 534
IsFile_Unchecked(file) == TRUE

\* line 534: os.path.isfile(file)
IsFile(file) == file \in files

\* lines 528-541: the two early returns, then open(file, 'rb')
UploadAttachment ==
    /\ pc = "upload_attachment"
    /\ IF IsRemote(up.file) \/ ~IsFile(up.file)
       THEN /\ AfterUpload
            /\ UNCHANGED <<up, handles>>
       ELSE /\ up' = [up EXCEPT !.filename = basename(up.file)]
            /\ handles' = handles + 1
            /\ pc' = "get_attachment"
            /\ UNCHANGED upd
    /\ UNCHANGED <<cfg, html, files, server, exitStatus, calls, page, ancestors>>

\* lines 510-516: the attachment the lookup returns, <<>> for False
FoundAttachment(filename) ==
    IF server.atts[filename] >= 1 THEN <<"att">> \o filename ELSE <<>>

\* line 543 with get_attachment: the lookup by filename under the page
GetAttachment ==
    /\ pc = "get_attachment"
    /\ \E st \in GetStatuses :
        /\ calls' = Append(calls, Call("get_attachment", upd.page_id, up.filename,
                                       0, EmptyBody, st,
                                       FoundAttachment(up.filename)))
        /\ IF Raises(st)
           THEN /\ Exit(1)
                /\ UNCHANGED up
           ELSE /\ up' = [up EXCEPT !.attachment = FoundAttachment(up.filename)]
                /\ pc' = "upload_post"
                /\ UNCHANGED exitStatus
    /\ UNCHANGED <<cfg, html, files, server, page, ancestors, upd, handles>>

\* upload_attachment ignoring the lookup result
UploadOp_AlwaysCreate(attachment) == "attachment_create"

\* lines 544-547: the endpoint the file is posted to
UploadOp(attachment) ==
    IF attachment # <<>> THEN "attachment_data" ELSE "attachment_create"

\* the remote attachments after an upload the remote side accepted
Stored(atts, op, filename, st) ==
    IF st >= 200 /\ st < 300 /\ op = "attachment_create"
    THEN [atts EXCEPT ![filename] = @ + 1]
    ELSE atts

\* the open file objects when upload_attachment returns: the function never
\* calls close(); whether the object is finalized on return is up to the
\* interpreter
HandlesOnReturn(h) == {h, h - 1}

\* lines 549-558: the POST; raise_for_status, or return True
UploadPost ==
    /\ pc = "upload_post"
    /\ \E st \in UploadStatuses :
        /\ calls' = Append(calls, Call(UploadOp(up.attachment), upd.page_id,
                                       up.filename, 0, EmptyBody, st, NoPage))
        /\ server' = [server EXCEPT
                        !.atts = Stored(@, UploadOp(up.attachment), up.filename, st)]
        /\ IF Raises(st)
           THEN /\ Exit(1)
                /\ UNCHANGED <<upd, handles>>
           ELSE /\ AfterUpload
                /\ handles' \in HandlesOnReturn(handles)
                /\ UNCHANGED exitStatus
    /\ UNCHANGED <<cfg, html, files, page, ancestors, up>>

----------------------------------------------------------------------------
(* update_page (lines 409-490): local references, the PUT, the properties *)

\* line 428
AddLocalRefs ==
    /\ pc = "add_local_refs"
    /\ LET r == add_local_refs(upd.page_id, title, upd.body)
       IN  IF r.raised
           THEN /\ Exit(1)
                /\ UNCHANGED upd
           ELSE /\ upd' = [upd EXCEPT !.body = r.html]
                /\ pc' = "update_put"
                /\ UNCHANGED exitStatus
    /\ UNCHANGED <<cfg, html, files, server, calls, page, ancestors, up, handles>>

\* the PUT repeating the version it was given
NextVersion_Same(version) == version

\* line 448: "number": version + 1
NextVersion(version) == version + 1

\* the PUT carrying the body as update_page received it
UpdateBody_AsReceived == html

\* lines 436-452: the body the PUT carries
UpdateBody == upd.body

\* line 467: the branch that goes on to the properties
UpdateSucceeded(st) == st = 200

\* lines 430-473, 487-490: the PUT of the page and what follows its response
UpdatePut ==
    /\ pc = "update_put"
    /\ \E st \in WriteStatuses :
        /\ calls' = Append(calls, Call("update", upd.page_id, title,
                                       NextVersion(upd.version), UpdateBody, st,
                                       NoPage))
        /\ IF Raises(st)
           THEN /\ Exit(1)
                /\ UNCHANGED server
           ELSE /\ UNCHANGED exitStatus
                /\ IF UpdateSucceeded(st)
                   THEN /\ server' = [server EXCEPT
                                        !.page.version = NextVersion(upd.version)]
                        /\ pc' = IF upd.properties # <<>> THEN "property_put"
                                                           ELSE "main_end"
                   ELSE /\ pc' = "main_end"
                        /\ UNCHANGED server
    /\ UNCHANGED <<cfg, html, files, page, ancestors, upd, up, handles>>

\* line 479: "version": {"number": properties[key][u"version"]}
SubmittedVersion(property) == property.version

\* lines 477-485: the PUT of the next property
PropertyPut ==
    /\ pc = "property_put"
    /\ \E st \in UploadStatuses :
        /\ calls' = Append(calls, Call("property", upd.page_id,
                                       <<upd.properties[upd.k].key>>,
                                       SubmittedVersion(upd.properties[upd.k]),
                                       EmptyBody, st, NoPage))
        /\ IF Raises(st)
           THEN /\ Exit(1)
                /\ UNCHANGED upd
           ELSE /\ UNCHANGED exitStatus
                /\ IF upd.k < Len(upd.properties)
                   THEN /\ upd' = [upd EXCEPT !.k = @ + 1]
                        /\ UNCHANGED pc
                   ELSE /\ pc' = "main_end"
                        /\ UNCHANGED upd
    /\ UNCHANGED <<cfg, html, files, server, page, ancestors, up, handles>>

----------------------------------------------------------------------------

Next ==
    \/ Main
    \/ MainDelete
    \/ MainAncestor
    \/ MainUpdate
    \/ CreatePage
    \/ AddImages
    \/ AddAttachments
    \/ UploadAttachment
    \/ GetAttachment
    \/ UploadPost
    \/ AddLocalRefs
    \/ UpdatePut
    \/ PropertyPut
    \/ MainEnd

Spec == Init /\ [][Next]_vars

----------------------------------------------------------------------------
(* Properties of a run *)

CallsOf(op) == {i \in DOMAIN calls : calls[i].op = op}

Count(op) == Cardinality(CallsOf(op))

Done == pc = "exit"

Is2xx(st) == st >= 200 /\ st < 300

NoCallFailed == \A i \in DOMAIN calls : Is2xx(calls[i].status)

AncestorExists == cfg.ANCESTOR => server.ancestor.found

\* the title lookup has answered
TitleLookedUp == Len(calls) >= 1 /\ ~Raises(calls[1].status)

RECURSIVE AddImagesResult(_, _, _)
\* the body add_images returns when every upload returns
AddImagesResult(body, tags, page_id) ==
    IF tags = <<>> THEN body
    ELSE AddImagesResult(RewriteSrc(body, Head(tags).src, page_id), Tail(tags), page_id)

\* the body a pass on page_id sends when nothing fails before the PUT
RewrittenBody(page_id) ==
    add_local_refs(page_id, title, AddImagesResult(html, html.imgs, page_id)).html

\* no step of the pass on page_id raises by itself: every image tag parses
\* and the local references resolve
LocalStepsPass(page_id) ==
    /\ \A i \in DOMAIN html.imgs : html.imgs[i].alt
    /\ ~add_local_refs(page_id, title,
                       AddImagesResult(html, html.imgs, page_id)).raised

PublishRun ==
    /\ Done
    /\ ~cfg.DELETE
    /\ ~cfg.SIMULATE
    /\ NoCallFailed
    /\ AncestorExists

\* C1 as stated: without delete or simulate, with no failing remote call and
\* an existing ancestor, a title that is not found leads to exactly one
\* create call, and a title found at version N leads to no create call and
\* exactly one update call, carrying version N+1. Stated for bodies whose
\* image tags all carry src and alt, as the markdown renderer writes them.
C1_AsStated ==
    (PublishRun /\ \A i \in DOMAIN html.imgs : html.imgs[i].alt) =>
        /\ ~page.found => Count("create") = 1
        /\ page.found =>
            /\ Count("create") = 0
            /\ Count("update") = 1
            /\ \A i \in CallsOf("update") : calls[i].version = page.version + 1

\* C1 amended: as C1, but the update call of a found page is issued exactly
\* once only when no step before it raises (an image tag without alt, an
\* unresolvable local reference, an unsupported page format); otherwise no
\* update call is issued. Every update call issued carries version N+1.
C1_Reconcile ==
    PublishRun =>
        /\ ~page.found => Count("create") = 1
        /\ page.found =>
            /\ Count("create") = 0
            /\ Count("update") <= 1
            /\ Count("update") = 1 <=> LocalStepsPass(page.id)
            /\ \A i \in CallsOf("update") : calls[i].version = page.version + 1

\* a found page at a version above 1 has been updated once
C1_Witness ==
    /\ PublishRun
    /\ page.found
    /\ page.version > 1
    /\ Count("update") = 1
    /\ \E i \in CallsOf("update") : calls[i].version = page.version + 1

AttachmentOps == {"get_attachment", "attachment_create", "attachment_data"}

\* C2: with delete requested, a found page gets exactly one delete call for
\* its id and nothing else; a page that is not found gets no create, update,
\* property, attachment or delete call.
C2_DeleteShortCircuits ==
    (cfg.DELETE /\ TitleLookedUp) =>
        /\ \A i \in DOMAIN calls :
              calls[i].op \notin {"create", "update", "property"} \cup AttachmentOps
        /\ page.found /\ Done =>
              /\ Count("delete") = 1
              /\ \A i \in CallsOf("delete") : calls[i].page = page.id
        /\ ~page.found => Count("delete") = 0

\* the version the lookup result asks for: 1 for a key the lookup did not
\* return (or when no page was found), K+1 for a key returned at version K
ExpectedPropertyVersion(key) ==
    IF \E p \in page.properties : p.key = key
    THEN (CHOOSE p \in page.properties : p.key = key).version + 1
    ELSE 1

\* C3: every property update is submitted with version 1 when the key is
\* absent from the looked-up page's properties (or the page was just
\* created) and with K+1 when it is present at version K, whatever the page
\* version and the other properties; a pass whose page update succeeded and
\* that ran to its end has submitted every configured key once.
C3_PropertyVersions ==
    /\ \A i \in CallsOf("property") :
          /\ calls[i].name[1] \in {cfg.PROPERTIES[k] : k \in DOMAIN cfg.PROPERTIES}
          /\ calls[i].version = ExpectedPropertyVersion(calls[i].name[1])
    /\ (Done /\ exitStatus = 0 /\ \E u \in CallsOf("update") : calls[u].status = 200) =>
          \A k \in DOMAIN cfg.PROPERTIES :
              Cardinality({i \in CallsOf("property") :
                              calls[i].name = <<cfg.PROPERTIES[k]>>}) = 1

\* two properties of one page submitted with different versions, neither
\* being the page version plus one
C3_Witness ==
    /\ page.found
    /\ \E i, j \in CallsOf("property") :
          /\ calls[i].version = 1
          /\ calls[j].version > 2
          /\ page.version + 1 \notin {calls[i].version, calls[j].version}

UploadOps == {"attachment_create", "attachment_data"}

\* the files the body's image tags and the configured attachments refer to
ImgFile(i) == PathJoin(source_folder, html.imgs[i].src)

AttFile(j) == PathJoin(source_folder, cfg.ATTACHMENTS[j])

\* a reference that is a local path of an existing file
Uploadable(file) == ~SearchHttp(file) /\ file \in files

\* C4: in an update pass every attachment call precedes the page update,
\* every uploadable image and attachment has been uploaded before it, the
\* body it sends is the rewritten body, and property updates are issued only
\* after a page update answered with 200, never after one that did not.
C4_PassOrdering ==
    /\ \A i, j \in DOMAIN calls :
          (i < j /\ calls[i].op = "update") => calls[j].op \notin AttachmentOps
    /\ \A u \in CallsOf("update") :
          /\ calls[u].body = RewrittenBody(calls[u].page)
          /\ \A i \in DOMAIN html.imgs :
                Uploadable(ImgFile(i)) =>
                    \E c \in 1..(u - 1) :
                        /\ calls[c].op \in UploadOps
                        /\ calls[c].name = basename(ImgFile(i))
          /\ \A j \in DOMAIN cfg.ATTACHMENTS :
                Uploadable(AttFile(j)) =>
                    \E c \in 1..(u - 1) :
                        /\ calls[c].op \in UploadOps
                        /\ calls[c].name = basename(AttFile(j))
          /\ calls[u].status # 200 => Count("property") = 0
    /\ \A p \in CallsOf("property") :
          \E u \in 1..(p - 1) :
              /\ calls[u].op = "update"
              /\ calls[u].status = 200
              /\ calls[u].page = calls[p].page

\* an upload, then a page update carrying a rewritten body, then a property
C4_Witness ==
    \E a, u, p \in DOMAIN calls :
        /\ a < u /\ u < p
        /\ calls[a].op \in UploadOps
        /\ calls[u].op = "update"
        /\ calls[u].body # html
        /\ calls[p].op = "property"

\* the condition of the claim, read off the inputs
CreatedBodyNeedsPass ==
    \/ html.imgs # <<>>
    \/ \E i \in DOMAIN html.links : IsLocalRef(html.links[i])
    \/ cfg.PROPERTIES # <<>>
    \/ cfg.ATTACHMENTS # <<>>
    \/ cfg.LABELS # <<>>

\* C5: once a create call has answered 200, an update pass is entered if
\* and only if the body has an image tag or a local link, or properties,
\* attachments or labels are configured; the pass works on the created id,
\* its update carries the created version plus one and its property updates
\* carry version 1; otherwise no call follows the create.
C5_CreateThenUpdate ==
    \A c \in CallsOf("create") :
        calls[c].status = 200 =>
            /\ (upd # NoUpdate) <=> CreatedBodyNeedsPass
            /\ upd # NoUpdate => upd.page_id = calls[c].data.id
            /\ ~CreatedBodyNeedsPass => c = Len(calls)
            /\ \A i \in (c + 1)..Len(calls) :
                  /\ calls[i].page = calls[c].data.id
                  /\ calls[i].op \in {"update", "property"} \cup AttachmentOps
                  /\ calls[i].op = "update" =>
                        calls[i].version = calls[c].data.version + 1
                  /\ calls[i].op = "property" => calls[i].version = 1

\* a page created at a version above 1, updated at once, a property set
C5_Witness ==
    \E c, u, p \in DOMAIN calls :
        /\ c < u /\ u < p
        /\ calls[c].op = "create"
        /\ calls[c].data.version > 1
        /\ calls[u].op = "update"
        /\ calls[u].version = calls[c].data.version + 1
        /\ calls[p].op = "property"
        /\ calls[p].version = 1

\* C6: a call answered with a non-2xx status is the last call of the run (no
\* retry, no further call), and the run does not end with exit status 0.
C6_FailureTerminates ==
    \A i \in DOMAIN calls :
        ~Is2xx(calls[i].status) =>
            /\ i = Len(calls)
            /\ Done => exitStatus # 0

\* the references the pass has taken up so far: image tags up to upd.i,
\* configured attachments up to upd.j once add_attachments is reached
ImgsTaken == {i \in DOMAIN html.imgs : i <= upd.i}

AttsTaken ==
    {j \in DOMAIN cfg.ATTACHMENTS :
        j <= upd.j /\ (upd.i > Len(upd.tags) /\ pc # "add_images")}

\* C7: attachment lookups and uploads are issued only for references that
\* are local paths of existing files, at most one lookup per such reference;
\* a missing file or a remote URL gets none, and does not end the run: a
\* pass that ends without its page update ends on a failed call or on a
\* step that raises by itself.
C7_SkipMissingAndRemote ==
    /\ \A c \in DOMAIN calls :
          calls[c].op \in AttachmentOps =>
              \/ \E i \in ImgsTaken :
                    Uploadable(ImgFile(i)) /\ calls[c].name = basename(ImgFile(i))
              \/ \E j \in AttsTaken :
                    Uploadable(AttFile(j)) /\ calls[c].name = basename(AttFile(j))
    /\ Count("get_attachment") <=
          Cardinality({i \in ImgsTaken : Uploadable(ImgFile(i))})
          + Cardinality({j \in AttsTaken : Uploadable(AttFile(j))})
    /\ (Done /\ upd # NoUpdate /\ Count("update") = 0) =>
          \/ \E c \in DOMAIN calls : Raises(calls[c].status)
          \/ ~LocalStepsPass(upd.page_id)

\* the run has skipped an image whose file is missing, uploaded a configured
\* attachment and updated the page
C7_Witness ==
    /\ Done
    /\ \E i \in DOMAIN html.imgs :
          ~SearchHttp(ImgFile(i)) /\ ImgFile(i) \notin files
    /\ Count("get_attachment") = 1
    /\ \E a, u \in DOMAIN calls :
          /\ a < u
          /\ calls[a].op \in UploadOps
          /\ calls[u].op = "update"

C9_HandlesClosed ==
    pc \notin {"get_attachment", "upload_post"} => handles = 0

\* C10: with --nossl every call goes to an http:// base URL, without it to
\* an https:// one.
C10_NoSslScheme ==
    \A i \in DOMAIN calls :
        calls[i].url[1] = IF cfg.NOSSL THEN "http://" ELSE "https://"

----------------------------------------------------------------------------
(* Duplicate headings (add_local_refs, dialect bitbucket) *)

\* the anchor key of a heading under the bitbucket dialect (line 271)
AnchorKey(header) == ref_prefixes.bitbucket \o slug(header, TRUE)

\* the fragment value of a heading (lines 273-276)
FragmentValue(header) ==
    IF cfg.VERSION = 1 THEN JoinSplit(header) ELSE slug(header, FALSE)

\* the number of headings before the i-th one that have its anchor key
Earlier(hs, i) ==
    Cardinality({j \in 1..(i - 1) : AnchorKey(hs[j]) = AnchorKey(hs[i])})

\* the first heading, in document order, that has the anchor key of the i-th
FirstWithKey(hs, i) ==
    CHOOSE j \in 1..i : /\ AnchorKey(hs[j]) = AnchorKey(hs[i])
                        /\ \A m \in 1..(j - 1) : AnchorKey(hs[m]) # AnchorKey(hs[i])

\* K for the first heading with key K, K + "_k" for the k-th later one
SuffixedKey(hs, i) ==
    IF Earlier(hs, i) = 0 THEN AnchorKey(hs[i])
    ELSE AnchorKey(hs[i]) \o <<"_", ToString(Earlier(hs, i))>>

\* the value of heading from, followed by ".k" when the i-th heading is the
\* k-th later one with its key
SuffixedValue(hs, i, from) ==
    IF Earlier(hs, i) = 0 THEN FragmentValue(hs[from])
    ELSE FragmentValue(hs[from]) \o <<".", ToString(Earlier(hs, i))>>

EndsWith(s, t) ==
    Len(s) >= Len(t) /\ SubSeq(s, Len(s) - Len(t) + 1, Len(s)) = t

StartsWith(s, t) == Len(s) >= Len(t) /\ SubSeq(s, 1, Len(t)) = t

\* the dialect is bitbucket and the page format is one add_local_refs knows
BitbucketRefs == cfg.MARKDOWN_SOURCE = "bitbucket" /\ cfg.VERSION \in {1, 2}

\* the mapping add_local_refs builds from the headings of the document
BitbucketMap ==
    HeadersMap(html.headers, <<>>, <<>>, ref_prefixes.bitbucket,
               ref_postfixes.bitbucket)

\* add_local_refs has returned in the update pass
RefsReturned == pc = "update_put"

\* the n-th link of the submitted body is an absolute URL of the page that
\* ends in the fragment value
RewrittenTo(n, value) ==
    LET href == upd.body.links[n].href
    IN  /\ StartsWith(href, CONFLUENCE_API_URL \o
                            <<"/spaces/", SPACE_KEY, "/pages/", upd.page_id, "/">>)
        /\ EndsWith(href, value)

\* when add_local_refs has returned: every heading is mapped under its
\* (suffixed) key to the suffixed value of the heading itself (own) or of the
\* first heading with its key, no two headings are mapped under the same key,
\* and a link to that key is rewritten to end in that value
Disambiguated(own) ==
    BitbucketRefs /\ RefsReturned =>
        LET hs == html.headers
        IN  \A i \in DOMAIN hs :
                LET from == IF own THEN i ELSE FirstWithKey(hs, i)
                IN  /\ SuffixedKey(hs, i) \in DOMAIN BitbucketMap
                    /\ BitbucketMap[SuffixedKey(hs, i)] = SuffixedValue(hs, i, from)
                    /\ \A j \in DOMAIN hs \ {i} : SuffixedKey(hs, j) # SuffixedKey(hs, i)
                    /\ \A n \in DOMAIN html.links :
                           html.links[n].href = SuffixedKey(hs, i) =>
                               RewrittenTo(n, SuffixedValue(hs, i, from))

----------------------------------------------------------------------------
(* Unresolvable references (add_local_refs) *)

\* MARKDOWN_SOURCE passes the test of lines 254-255
RecognizedDialect ==
    /\ cfg.MARKDOWN_SOURCE \in DOMAIN ref_prefixes
    /\ cfg.MARKDOWN_SOURCE \in DOMAIN ref_postfixes

\* the keys of the heading-anchor mapping of a body; no key without headings
AnchorKeys(b) ==
    DOMAIN HeadersMap(b.headers, <<>>, <<>>, ref_prefixes[cfg.MARKDOWN_SOURCE],
                      ref_postfixes[cfg.MARKDOWN_SOURCE])

\* the body has an intra-document link whose target is not a key
HasUnresolvedRef(b) ==
    \E n \in DOMAIN LocalRefs(b) : LocalRefs(b)[n].href \notin AnchorKeys(b)

\* C12: under a recognized dialect, for every body with an intra-document link
\* whose target is not a key of the heading-anchor mapping, whatever the number
\* of headings (zero included), add_local_refs fails instead of returning and
\* the page-update call of that pass is not issued.
C12_UnresolvedFails ==
    RecognizedDialect /\ HasUnresolvedRef(html) =>
        ~RefsReturned /\ Count("update") = 0

====
